---------------------------- MODULE Spec2Model ----------------------------
(***************************************************************************)
(* Two scripts that read two PDF documents, pull a text out of each, and   *)
(* apply regular-expression heuristics to it:                              *)
(*   clank/extract_pdf_text.py     page-by-page text, names, relationship  *)
(*                                 tuples, a sample file per document      *)
(*   clank/simple_pdf_analysis.py  byte scan of the raw file, names only   *)
(* A Python str is a sequence of one-character strings.  The regular       *)
(* expressions are syntax trees run by a backtracking matcher with the     *)
(* priorities of Python's re module (greedy repeats, ordered alternation,  *)
(* leftmost match, non-overlapping findall).                               *)
(***************************************************************************)
EXTENDS Integers, Sequences, FiniteSets, TLC

(***************************************************************************)
(* Characters                                                              *)
(***************************************************************************)
UpperSeq == <<"A", "B", "C", "D", "E", "F", "G", "H", "I", "J", "K", "L", "M", "N", "O", "P", "Q", "R", "S", "T", "U", "V", "W", "X", "Y", "Z">>
LowerSeq == <<"a", "b", "c", "d", "e", "f", "g", "h", "i", "j", "k", "l", "m", "n", "o", "p", "q", "r", "s", "t", "u", "v", "w", "x", "y", "z">>

Range(s) == { s[i] : i \in 1..Len(s) }

Upper == Range(UpperSeq)
Lower == Range(LowerSeq)
Letter == Upper \cup Lower
Digit == {"0", "1", "2", "3", "4", "5", "6", "7", "8", "9"}
\* \s of a str pattern
Space == {" ", "\t", "\n", "\r", "\f"}
\* \w of a str pattern
WordChar == Letter \cup Digit \cup {"_"}

UpperIdx == [c \in Upper |-> CHOOSE i \in 1..Len(UpperSeq) : UpperSeq[i] = c]
LowerIdx == [c \in Lower |-> CHOOSE i \in 1..Len(LowerSeq) : LowerSeq[i] = c]

\* str.lower() and str.upper() on one character
ToLower(c) == IF c \in Upper THEN LowerSeq[UpperIdx[c]] ELSE c
ToUpper(c) == IF c \in Lower THEN UpperSeq[LowerIdx[c]] ELSE c

LowerStr(s) == [i \in 1..Len(s) |-> ToLower(s[i])]

\* the code point of a character (ASCII)
PunctCode ==
    [c \in {"\t", "\n", "\f", "\r", " ", "%", "(", ")", ",", "-", ".", "/", "_"} |->
        CASE c = "\t" -> 9  [] c = "\n" -> 10 [] c = "\f" -> 12 [] c = "\r" -> 13
          [] c = " " -> 32  [] c = "%" -> 37  [] c = "(" -> 40  [] c = ")" -> 41
          [] c = "," -> 44  [] c = "-" -> 45  [] c = "." -> 46  [] c = "/" -> 47
          [] c = "_" -> 95]

DigitSeq == <<"0", "1", "2", "3", "4", "5", "6", "7", "8", "9">>

Code(c) ==
    IF c \in Upper THEN 64 + UpperIdx[c]
    ELSE IF c \in Lower THEN 96 + LowerIdx[c]
    ELSE IF c \in Digit THEN 47 + (CHOOSE i \in 1..10 : DigitSeq[i] = c)
    ELSE PunctCode[c]

(***************************************************************************)
(* Regular expressions: syntax trees                                       *)
(***************************************************************************)
Inf == 0 - 1

Cls(S) == [t |-> "cls", s |-> S]
Cat(rs) == [t |-> "cat", rs |-> rs]
Alt(rs) == [t |-> "alt", rs |-> rs]
Rep(r, lo, hi) == [t |-> "rep", r |-> r, lo |-> lo, hi |-> hi]
Grp(r) == [t |-> "grp", r |-> r]
WB == [t |-> "wb"]
Lit(s) == Cat([i \in 1..Len(s) |-> Cls({s[i]})])
Plus(r) == Rep(r, 1, Inf)
Star(r) == Rep(r, 0, Inf)
Opt(r) == Rep(r, 0, 1)

\* number of capture groups of a pattern (groups stand at the top level of
\* the patterns of these scripts)
NGroups(p) ==
    IF p.t = "cat" THEN Cardinality({ i \in 1..Len(p.rs) : p.rs[i].t = "grp" })
    ELSE IF p.t = "grp" THEN 1 ELSE 0

(***************************************************************************)
(* The matcher.  Ends(text, ic, r, pos) lists the positions where a match  *)
(* of r that starts at pos can end, in the order in which a backtracking   *)
(* matcher tries them: a greedy repeat tries one more iteration before it  *)
(* stops, an alternation tries its branches left to right.  The match the  *)
(* re module reports is the first of the list.  ic is re.IGNORECASE.       *)
(* No repeated sub-pattern of these scripts matches the empty string.      *)
(***************************************************************************)
InClass(c, S, ic) == c \in S \/ (ic /\ (ToLower(c) \in S \/ ToUpper(c) \in S))

IsWord(text, i) == i >= 1 /\ i <= Len(text) /\ text[i] \in WordChar

Min(S) == CHOOSE m \in S : \A x \in S : m <= x

RECURSIVE FlattenRange(_, _, _)
FlattenRange(ss, lo, hi) ==
    IF lo > hi THEN << >>
    ELSE IF lo = hi THEN ss[lo]
    ELSE FlattenRange(ss, lo, (lo + hi) \div 2) \o FlattenRange(ss, (lo + hi) \div 2 + 1, hi)

FlattenAll(ss) == FlattenRange(ss, 1, Len(ss))

\* the concatenation of a sequence of sequences
Flatten(ss) == FlattenAll(<< >> \o ss)

\* the length of the run from pos on, given the positions that stop it
RunUpTo(text, pos, stops) ==
    IF stops = {} THEN Len(text) + 1 - pos ELSE Min(stops) - pos

\* the length of the run of characters of class S from pos on
RunLength(text, ic, S, pos) ==
    RunUpTo(text, pos, { j \in pos..Len(text) : ~InClass(text[j], S, ic) })

\* a repeat of lo to hi characters over a run of that many: longest first
RunEnds(pos, lo, most) ==
    IF most < lo THEN << >>
    ELSE [i \in 1..(most - lo + 1) |-> pos + most + 1 - i]

AtMost(hi, run) == IF hi # Inf /\ hi < run THEN hi ELSE run

RECURSIVE Ends(_, _, _, _)
RECURSIVE EndsSeq(_, _, _, _)
RECURSIVE EndsFrom(_, _, _, _)

\* r from each of the positions starts
EndsFrom(text, ic, r, starts) ==
    Flatten([j \in 1..Len(starts) |-> Ends(text, ic, r, starts[j])])

\* the items of rs one after the other, from each of the positions starts
EndsSeq(text, ic, rs, starts) ==
    IF Len(rs) = 0 \/ Len(starts) = 0 THEN starts
    ELSE EndsSeq(text, ic, Tail(rs), EndsFrom(text, ic, Head(rs), starts))

Ends(text, ic, r, pos) ==
    CASE r.t = "cls" ->
           IF pos <= Len(text) /\ InClass(text[pos], r.s, ic) THEN <<pos + 1>> ELSE << >>
      [] r.t = "wb" ->
           IF IsWord(text, pos - 1) # IsWord(text, pos) THEN <<pos>> ELSE << >>
      [] r.t = "grp" -> EndsSeq(text, ic, <<r.r>>, <<pos>>)
      [] r.t = "cat" -> EndsSeq(text, ic, r.rs, <<pos>>)
      [] r.t = "alt" -> Flatten([j \in 1..Len(r.rs) |-> EndsSeq(text, ic, <<r.rs[j]>>, <<pos>>)])
      [] r.t = "rep" /\ r.r.t = "cls" ->
           \* a repeated character class: the longest run first, then shorter
           RunEnds(pos, r.lo, AtMost(r.hi, RunLength(text, ic, r.r.s, pos)))
      [] r.t = "rep" /\ r.r.t # "cls" ->
           \* one more iteration and the rest of the repeat, else stop here
           (IF r.hi = 0 THEN << >>
            ELSE EndsSeq(text, ic,
                         <<r.r, Rep(r.r, IF r.lo > 0 THEN r.lo - 1 ELSE 0,
                                    IF r.hi = Inf THEN Inf ELSE r.hi - 1)>>,
                         <<pos>>))
             \o (IF r.lo = 0 THEN <<pos>> ELSE << >>)

\* The matches of the whole pattern from pos with their groups, in the same
\* order.  The groups of these patterns are items of the top-level
\* concatenation.
Items(p) == IF p.t = "cat" THEN p.rs ELSE <<p>>

\* the partial match part extended by item, which can end at es
Extend(text, item, part, es) ==
    [e \in 1..Len(es) |->
       [end |-> es[e],
        caps |-> IF item.t = "grp"
                 THEN Append(part.caps, SubSeq(text, part.end, es[e] - 1))
                 ELSE part.caps]]

Step(text, ic, item, part) == Extend(text, item, part, Ends(text, ic, item, part.end))

RECURSIVE MatchItems(_, _, _, _)
MatchItems(text, ic, items, parts) ==
    IF Len(items) = 0 \/ Len(parts) = 0 THEN parts
    ELSE MatchItems(text, ic, Tail(items),
                    Flatten([j \in 1..Len(parts) |-> Step(text, ic, Head(items), parts[j])]))

NoMatch == [ok |-> FALSE, start |-> 0, end |-> 0, caps |-> << >>]

First(pos, ms) ==
    IF Len(ms) = 0 THEN NoMatch
    ELSE [ok |-> TRUE, start |-> pos, end |-> ms[1].end, caps |-> ms[1].caps]

\* pattern.match(text, pos)
MatchAt(p, text, ic, pos) ==
    First(pos, MatchItems(text, ic, Items(p), <<[end |-> pos, caps |-> << >>]>>))

\* What findall gives for one match: the matched string if the pattern has
\* no group, the group if it has one, the tuple of groups otherwise.
PyStr(s) == [type |-> "str", v |-> s]
PyTuple(t) == [type |-> "tuple", v |-> t]

FindallItem(p, text, m) ==
    IF NGroups(p) = 0 THEN PyStr(SubSeq(text, m.start, m.end - 1))
    ELSE IF NGroups(p) = 1 THEN PyStr(m.caps[1])
    ELSE PyTuple(m.caps)

\* The scan of findall: the leftmost position from pos on where the pattern
\* matches, then on from the end of that match.  at[q] is the match at q.
RECURSIVE Scan(_, _, _, _)
RECURSIVE ScanHits(_, _, _, _)
RECURSIVE ScanOn(_, _, _, _)

Scan(p, text, at, pos) ==
    ScanHits(p, text, at, { q \in pos..(Len(text) + 1) : at[q].ok })

ScanHits(p, text, at, hits) ==
    IF hits = {} THEN << >> ELSE ScanOn(p, text, at, at[Min(hits)])

ScanOn(p, text, at, m) ==
    <<FindallItem(p, text, m)>>
      \o Scan(p, text, at, IF m.end = m.start THEN m.end + 1 ELSE m.end)

\* re.findall(p, text, flags): the non-overlapping matches, left to right
findall(p, text, ic) ==
    Scan(p, text, << >> \o [q \in 1..(Len(text) + 1) |-> MatchAt(p, text, ic, q)], 1)

(***************************************************************************)
(* extract_pdf_text.py: the patterns                                       *)
(***************************************************************************)
SP == Plus(Cls(Space))
Word == Cat(<<Cls(Upper), Plus(Cls(Lower))>>)
\* [A-Z][a-z]+(?:\s+[A-Z][a-z]+)*
NAME == Cat(<<Word, Star(Cat(<<SP, Word>>))>>)
\* ([a-z]+)
RELWORD == Grp(Plus(Cls(Lower)))
IsWas == Alt(<<Lit(<<"i", "s">>), Lit(<<"w", "a", "s">>)>>)
Poss == Alt(<<Lit(<<"m", "y">>), Lit(<<"h", "i", "s">>), Lit(<<"h", "e", "r">>), Lit(<<"t", "h", "e", "i", "r">>)>>)
\* (?:for) alone
WithFor_OnlyFor == Lit(<<"f", "o", "r">>)
WithFor == Alt(<<Lit(<<"w", "i", "t", "h">>), Lit(<<"f", "o", "r">>)>>)
Works == Cat(<<Lit(<<"w", "o", "r", "k">>), Opt(Cls({"s"}))>>)
REDACTED == <<"R", "E", "D", "A", "C", "T", "E", "D">>

name_pattern == Cat(<<WB, NAME, WB>>)

common_words ==
    { <<"T", "h", "e">>, <<"T", "h", "i", "s">>, <<"T", "h", "a", "t">>, <<"T", "h", "e", "y">>, <<"T", "h", "e", "r", "e">>, <<"T", "h", "e", "n">>, <<"T", "h", "e", "s", "e">>,
      <<"T", "h", "o", "s", "e">>, <<"W", "h", "e", "n">>, <<"W", "h", "e", "r", "e">>, <<"W", "h", "a", "t">>, <<"W", "h", "y">>, <<"H", "o", "w">>, <<"W", "h", "o">>,
      <<"W", "h", "i", "c", "h">>, <<"I", "n", "t", "e", "r", "v", "i", "e", "w">>, <<"T", "r", "a", "n", "s", "c", "r", "i", "p", "t">>, <<"M", "a", "x", "w", "e", "l", "l">>, <<"R", "e", "d", "a", "c", "t", "e", "d">>,
      <<"P", "a", "g", "e">>, <<"Q", "u", "e", "s", "t", "i", "o", "n">>, <<"A", "n", "s", "w", "e", "r">>, <<"D", "e", "t", "e", "c", "t", "i", "v", "e">>, <<"O", "f", "f", "i", "c", "e", "r">>, <<"M", "r">>,
      <<"M", "r", "s">>, <<"M", "s">>, <<"D", "r">>, <<"P", "r", "o", "f", "e", "s", "s", "o", "r">> }

relationship_patterns ==
    << Cat(<<Grp(NAME), SP, IsWas, SP, Poss, SP, RELWORD>>),
       Cat(<<Grp(NAME), SP, Lit(<<"a", "n", "d">>), SP, Grp(NAME), SP, Lit(<<"a", "r", "e">>), SP, RELWORD>>),
       Cat(<<Grp(NAME), SP, Works, SP, WithFor, SP, Grp(NAME)>>),
       Cat(<<Grp(NAME), SP, Lit(<<"k", "n", "o", "w">>), Opt(Cls({"s"})), SP, Grp(NAME)>>),
       Cat(<<Grp(NAME), SP,
             Alt(<<Lit(<<"m", "e", "t">>), Cat(<<Lit(<<"m", "e", "e", "t">>), Opt(Cls({"s"}))>>)>>),
             SP, Grp(NAME)>>) >>

redacted_patterns ==
    << Cat(<<Lit(REDACTED), SP, IsWas, SP, Poss, SP, RELWORD>>),
       Cat(<<Lit(REDACTED), SP, Lit(<<"a", "n", "d">>), SP, Grp(NAME), SP, Lit(<<"a", "r", "e">>), SP, RELWORD>>),
       Cat(<<Grp(NAME), SP, Lit(<<"a", "n", "d">>), SP, Lit(REDACTED), SP, Lit(<<"a", "r", "e">>), SP, RELWORD>>),
       Cat(<<Lit(REDACTED), SP, Works, SP, WithFor, SP, Grp(NAME)>>),
       Cat(<<Grp(NAME), SP, Works, SP, WithFor, SP, Lit(REDACTED)>>) >>

\* a filter without the stoplist
KeepName_AnyWord(name, stoplist) == Len(name) > 2
\* the filter of the name loop
KeepName(name, stoplist) == name \notin stoplist /\ Len(name) > 2

\* for name in potential_names: ... names.add(name)
FilterNames(potential_names, stoplist) ==
    { potential_names[i].v : i \in { j \in 1..Len(potential_names) :
                                       KeepName(potential_names[j].v, stoplist) } }

\* relationships.extend(matches), pattern after pattern
RECURSIVE ExtendGeneral(_, _, _)
ExtendGeneral(relationships, patterns, text) ==
    IF Len(patterns) = 0 THEN relationships
    ELSE ExtendGeneral(relationships \o findall(Head(patterns), text, TRUE),
                       Tail(patterns), text)

\* the match appended as findall gives it
Normalize_AsMatched(match) == match

\* ('REDACTED', match) if isinstance(match, str) else match
Normalize(match) ==
    IF match.type = "str" THEN PyTuple(<<REDACTED, match.v>>) ELSE match

NormalizeAll(matches) == [i \in 1..Len(matches) |-> Normalize(matches[i])]

\* matches put in front of the list instead of at its end
RECURSIVE ExtendRedacted_InFront(_, _, _)
ExtendRedacted_InFront(relationships, patterns, text) ==
    IF Len(patterns) = 0 THEN relationships
    ELSE ExtendRedacted_InFront(NormalizeAll(findall(Head(patterns), text, TRUE))
                                  \o relationships,
                                Tail(patterns), text)

\* relationships.extend([...]), pattern after pattern
RECURSIVE ExtendRedacted(_, _, _)
ExtendRedacted(relationships, patterns, text) ==
    IF Len(patterns) = 0 THEN relationships
    ELSE ExtendRedacted(relationships \o NormalizeAll(findall(Head(patterns), text, TRUE)),
                        Tail(patterns), text)

extract_names_and_relationships(text) ==
    [names |-> FilterNames(findall(name_pattern, text, FALSE), common_words),
     relationships |-> ExtendRedacted(ExtendGeneral(<< >>, relationship_patterns, text),
                                      redacted_patterns, text)]


(***************************************************************************)
(* Python values                                                           *)
(***************************************************************************)
None == [type |-> "NoneType", v |-> << >>]
\* a name not bound yet
Unbound == [type |-> "unbound", v |-> << >>]
UnboundSet == [type |-> "unbound", v |-> {}]
PySet(S) == [type |-> "set", v |-> S]
PyList(l) == [type |-> "list", v |-> l]

\* s[:n]
Prefix(s, n) == SubSeq(s, 1, IF Len(s) < n THEN Len(s) ELSE n)

\* a before b, given the positions where they differ
LessAt(a, b, d) ==
    IF d = {} THEN Len(a) < Len(b) ELSE Code(a[Min(d)]) < Code(b[Min(d)])

\* the order of str: by code point, a proper prefix first
LexLess(a, b) ==
    LessAt(a, b, { i \in 1..(IF Len(a) < Len(b) THEN Len(a) ELSE Len(b)) : a[i] # b[i] })

Least_Greatest(S) == CHOOSE x \in S : \A y \in S : y = x \/ LexLess(y, x)
Least(S) == CHOOSE x \in S : \A y \in S : y = x \/ LexLess(x, y)

\* sorted(S) of a set of str
RECURSIVE sorted(_)
RECURSIVE SortedFrom(_, _)
sorted(S) == IF S = {} THEN << >> ELSE SortedFrom(S, Least(S))
SortedFrom(S, m) == <<m>> \o sorted(S \ {m})

\* one line of standard output: the format string of the print call and
\* the value it formats
Line(fmt, arg) == [fmt |-> fmt, arg |-> arg]

NameLines(l) == [i \in 1..Len(l) |-> Line("  - {name}", l[i])]
RelLines(l) == [i \in 1..Len(l) |-> Line("  - {rel}", l[i])]

(***************************************************************************)
(* The environment: the two documents and the two sample files             *)
(***************************************************************************)
\* A document on disk.  exists: open() finds it.  loads: PdfReader accepts
\* it (extract_pdf_text.py), read() succeeds (simple_pdf_analysis.py).
\* pages: what page.extract_text() gives page by page, ok = FALSE where it
\* raises.  bytes: the raw content, "<FF>" a byte that is not valid UTF-8.
Doc(exists, loads, pages, bytes) ==
    [exists |-> exists, loads |-> loads, pages |-> pages, bytes |-> bytes]
Page(s) == [ok |-> TRUE, text |-> s]
BadPage == [ok |-> FALSE, text |-> << >>]

NoFile == [exists |-> FALSE, content |-> << >>]
File(c) == [exists |-> TRUE, content |-> c]

SampleLen == 5000
ReadLen == 50000
SampleTextLen == 2000
ShowFirst == 20

(***************************************************************************)
(* extract_pdf_text.py                                                     *)
(***************************************************************************)
\* for page in pdf_reader.pages: text += page.extract_text() + "\n"
RECURSIVE ReadPages(_, _)
ReadPages(pages, text) ==
    IF Len(pages) = 0 THEN [raised |-> FALSE, text |-> text]
    ELSE IF ~Head(pages).ok THEN [raised |-> TRUE, text |-> text]
    ELSE ReadPages(Tail(pages), text \o Head(pages).text \o <<"\n">>)

\* an except clause that keeps the pages read so far
OnReadError_KeepPages(text) == PyStr(text)
\* What the except clause returns, given the text read before the exception
OnReadError(text) == None

ErrorLine(pdf_path) == Line("Error reading {pdf_path}: {e}", pdf_path)

ReadResult(pdf_path, r) ==
    IF r.raised THEN [ret |-> OnReadError(r.text), printed |-> <<ErrorLine(pdf_path)>>]
    ELSE [ret |-> PyStr(r.text), printed |-> << >>]

extract_text_from_pdf(pdf_path, doc) ==
    IF ~doc.exists \/ ~doc.loads
    THEN [ret |-> OnReadError(<< >>), printed |-> <<ErrorLine(pdf_path)>>]
    ELSE ReadResult(pdf_path, ReadPages(doc.pages, << >>))

\* if text1:
Truthy(x) == x.type = "str" /\ Len(x.v) > 0

\* the names loop of the report
ReportNames(names) == NameLines(sorted(names))

\* the two sections of a document
Sections(got, res) ==
    [text |-> got.ret, names |-> PySet(res.names),
     relationships |-> PyList(res.relationships),
     printed |-> got.printed
                   \o <<Line("Names found:", << >>)>>
                   \o ReportNames(res.names)
                   \o <<Line("\nRelationships found:", << >>)>>
                   \o RelLines(res.relationships)]

AfterAcquisition(got) ==
    IF Truthy(got.ret) THEN Sections(got, extract_names_and_relationships(got.ret.v))
    ELSE [text |-> got.ret, names |-> UnboundSet, relationships |-> Unbound,
          printed |-> got.printed]

\* One document of the __main__ block up to the sample file: acquisition
\* and the two sections
AnalyzeDocument(pdf_path, doc) == AfterAcquisition(extract_text_from_pdf(pdf_path, doc))

(***************************************************************************)
(* simple_pdf_analysis.py                                                  *)
(***************************************************************************)
Word3 == Cat(<<Cls(Upper), Rep(Cls(Lower), 2, Inf)>>)
\* \b[A-Z][a-z]{2,}(?:\s+[A-Z][a-z]{2,})*\b
binary_name_pattern == Cat(<<WB, Word3, Star(Cat(<<SP, Word3>>)), WB>>)
\* [A-Za-z\s]{10,}
text_part_pattern == Rep(Cls(Letter \cup Space), 10, Inf)

binary_common_words ==
    { <<"T", "h", "e">>, <<"T", "h", "i", "s">>, <<"T", "h", "a", "t">>, <<"T", "h", "e", "y">>, <<"T", "h", "e", "r", "e">>, <<"T", "h", "e", "n">>, <<"T", "h", "e", "s", "e">>,
      <<"T", "h", "o", "s", "e">>, <<"W", "h", "e", "n">>, <<"W", "h", "e", "r", "e">>, <<"W", "h", "a", "t">>, <<"W", "h", "y">>, <<"H", "o", "w">>, <<"W", "h", "o">>,
      <<"W", "h", "i", "c", "h">>, <<"I", "n", "t", "e", "r", "v", "i", "e", "w">>, <<"T", "r", "a", "n", "s", "c", "r", "i", "p", "t">>, <<"M", "a", "x", "w", "e", "l", "l">>, <<"R", "e", "d", "a", "c", "t", "e", "d">>,
      <<"P", "a", "g", "e">>, <<"Q", "u", "e", "s", "t", "i", "o", "n">>, <<"A", "n", "s", "w", "e", "r">>, <<"D", "e", "t", "e", "c", "t", "i", "v", "e">>, <<"O", "f", "f", "i", "c", "e", "r">>, <<"A", "n", "d">>,
      <<"B", "u", "t">>, <<"F", "o", "r">>, <<"N", "o", "t">>, <<"Y", "o", "u">>, <<"A", "r", "e">>, <<"W", "a", "s">>, <<"W", "e", "r", "e">>, <<"B", "e", "e", "n">>,
      <<"H", "a", "v", "e">>, <<"H", "a", "s">>, <<"H", "a", "d">>, <<"W", "i", "l", "l">>, <<"W", "o", "u", "l", "d">>, <<"C", "o", "u", "l", "d">>, <<"S", "h", "o", "u", "l", "d">>,
      <<"M", "a", "y">>, <<"M", "i", "g", "h", "t">>, <<"C", "a", "n">>, <<"M", "u", "s", "t">>, <<"S", "h", "a", "l", "l">> }

relationship_words ==
    << <<"p", "a", "r", "t", "n", "e", "r">>, <<"c", "o", "l", "l", "e", "a", "g", "u", "e">>, <<"f", "r", "i", "e", "n", "d">>, <<"a", "s", "s", "o", "c", "i", "a", "t", "e">>, <<"b", "o", "s", "s">>,
       <<"e", "m", "p", "l", "o", "y", "e", "e">>, <<"s", "u", "p", "e", "r", "v", "i", "s", "o", "r">>, <<"m", "a", "n", "a", "g", "e", "r">>, <<"d", "i", "r", "e", "c", "t", "o", "r">>, <<"w", "o", "r", "k", "s", " ", "w", "i", "t", "h">>,
       <<"k", "n", "o", "w", "s">>, <<"m", "e", "t">> >>

InvalidByte == "<FF>"

\* bytes.decode('utf-8', errors='ignore')
Decode(bytes) == SelectSeq(bytes, LAMBDA b : b # InvalidByte)

\* ' '.join(parts)
RECURSIVE Join(_)
Join(parts) ==
    IF Len(parts) = 0 THEN << >>
    ELSE IF Len(parts) = 1 THEN parts[1].v
    ELSE parts[1].v \o <<" ">> \o Join(Tail(parts))

\* word in text
Contains(word, text) ==
    \E i \in 0..(Len(text) - Len(word)) : SubSeq(text, i + 1, i + Len(word)) = word

\* sorted(names)[:20], the names the per-document report shows
ShownNames(names) == Prefix(sorted(names), ShowFirst)

BinaryReport(file_path, readable_text, names, redacted_count, relationships_found) ==
    [text |-> PyStr(readable_text), names |-> PySet(names),
     printed |-> <<Line("Analyzing {file_path}", file_path),
                   Line("Sample text found:", << >>),
                   Line("{readable_text[:2000]}", Prefix(readable_text, SampleTextLen)),
                   Line("==================================================", << >>),
                   Line("Potential names extracted:", << >>)>>
                   \o NameLines(ShownNames(names))
                   \o <<Line("REDACTED mentions found: {redacted_count}", redacted_count),
                        Line("Relationship terms found: {relationships_found}",
                             relationships_found)>>]

AnalyzeText(file_path, readable_text) ==
    BinaryReport(file_path, readable_text,
                 FilterNames(findall(binary_name_pattern, readable_text, FALSE),
                             binary_common_words),
                 Len(findall(Lit(REDACTED), readable_text, TRUE)),
                 SelectSeq(relationship_words,
                           LAMBDA word : Contains(LowerStr(word), LowerStr(readable_text))))

analyze_pdf_binary(file_path, doc) ==
    IF ~doc.exists \/ ~doc.loads
    THEN [text |-> None, names |-> PySet({}),
          printed |-> <<Line("Analyzing {file_path}", file_path),
                        Line("Error reading {file_path}: {e}", file_path)>>]
    ELSE AnalyzeText(file_path,
                     Join(findall(text_part_pattern, Decode(Prefix(doc.bytes, ReadLen)), FALSE)))

(***************************************************************************)
(* The inputs                                                              *)
(***************************************************************************)
MaxFrags == 1
MaxPages == 2
MaxRoster == 21

PHRASE == <<"J", "a", "n", "e", " ", "S", "m", "i", "t", "h", " ", "w", "o", "r", "k", "s", " ", "w", "i", "t", "h", " ", "J", "o", "h", "n", " ", "D", "o", "e">>
BROTHER == <<"R", "E", "D", "A", "C", "T", "E", "D", " ", "i", "s", " ", "m", "y", " ", "b", "r", "o", "t", "h", "e", "r">>

\* the texts the patterns are written for
Cores ==
    { PHRASE, BROTHER, <<"a", "l", "i", "c", "e", " ", "w", "o", "r", "k", "s", " ", "w", "i", "t", "h", " ", "b", "o", "b">>, <<"r", "e", "d", "a", "c", "t", "e", "d", " ", "w", "a", "s", " ", "h", "e", "r", " ", "b", "o", "s", "s">>,
      <<"A", "l", " ", "a", "n", "d", " ", "R", "E", "D", "A", "C", "T", "E", "D", " ", "a", "r", "e", " ", "p", "a", "l", "s">> }

\* what may stand around them
Frags == { <<".">>, <<"s">>, <<" ", "T", "h", "e", " ">>, <<"R", "E", "D", "A", "C", "T", "E", "D", " ", "i", "s", " ", "m", "y", " ">> }

\* at most n fragments split between the two sides of a core
RECURSIVE TextsOf(_)
TextsOf(n) ==
    IF n = 0 THEN Cores
    ELSE TextsOf(n - 1)
           \cup { f \o t : f \in Frags, t \in TextsOf(n - 1) }
           \cup { t \o f : f \in Frags, t \in TextsOf(n - 1) }

\* one page with such a text
RichDocs == { Doc(TRUE, TRUE, <<Page(t)>>, << >>) : t \in TextsOf(MaxFrags) }

FlowPages == { Page(<<"Z", "e", "d", " ", "m", "e", "t", " ", "A", "l">>), BadPage }

RECURSIVE PageSeqs(_)
PageSeqs(n) ==
    IF n = 0 THEN { << >> }
    ELSE PageSeqs(n - 1) \cup { Append(s, p) : s \in PageSeqs(n - 1), p \in FlowPages }

Missing == Doc(FALSE, FALSE, << >>, << >>)
Corrupt == Doc(TRUE, FALSE, << >>, << >>)

\* up to MaxPages pages, some of which raise; a missing and a corrupt file
FlowDocs == {Missing, Corrupt} \cup { Doc(TRUE, TRUE, ps, << >>) : ps \in PageSeqs(MaxPages) }

\* a file whose text holds n different names, last in the alphabet first:
\* "Zab x Yab x ..."
RECURSIVE Roster(_)
Roster(n) ==
    IF n = 0 THEN << >>
    ELSE Roster(n - 1) \o <<UpperSeq[27 - n], "a", "b", " ", "x", " ">>

BinaryDocs ==
    {Missing, Corrupt}
      \cup { Doc(TRUE, TRUE, << >>, Roster(n)) : n \in 0..MaxRoster }
      \cup { Doc(TRUE, TRUE, << >>, b) :
               b \in { <<"%", "P", "D", "F", "-", "1", ".", "4">> \o <<InvalidByte>> \o <<"(", "J", "a", "n", "e", " ", "S", "m", "i", "t", "h", " ", "w", "o", "r", "k", "s", " ", "w", "i", "t", "h", " ", "J", "o", "h", "n", " ", "D", "o", "e", ")">>,
                       <<"T", "h", "e", " ", "I", "n", "t", "e", "r", "v", "i", "e", "w", " ", "o", "f", " ", "M", "r", " ", "A", "b", ".", " ", "R", "e", "d", "a", "c", "t", "e", "d", " ", "a", "n", "d", " ", "R", "E", "D", "A", "C", "T", "E", "D", " ", "A", "r", "e", " ", "r", "e", "d", "a", "c", "t", "e", "d">>,
                       <<"A", "n", "n", " ", "m", "e", "t", " ", "B", "o", "b", ",">> \o <<InvalidByte>> \o <<" ", "A", "n", "n", " ", "k", "n", "o", "w", "s", "\n", "B", "o", "b", " ", "L", "e", "e">>,
                       <<"A", "n", "n", " ", "L", "e", "e">> } }
BinaryFew == {Missing, Doc(TRUE, TRUE, << >>, <<"A", "n", "n", " ", "m", "e", "t", " ", "B", "o", "b", " ", "a", "n", "d", " ", "T", "h", "e", " ", "B", "o", "s", "s">>)}

\* the script and the two documents of a run
Runs ==
    ({"extract_pdf_text"} \X RichDocs \X {Missing})
      \cup ({"extract_pdf_text"} \X FlowDocs \X FlowDocs)
      \cup ({"simple_pdf_analysis"} \X BinaryDocs \X BinaryFew)
      \cup ({"simple_pdf_analysis"} \X BinaryFew \X BinaryDocs)

PDF1 == "pdf1"
PDF2 == "pdf2"
SAMPLE1 == "pdf1_sample.txt"
SAMPLE2 == "pdf2_sample.txt"
STALE == <<"s", "t", "a", "l", "e">>

(***************************************************************************)
(* The two programs                                                        *)
(***************************************************************************)
VARIABLES
    script,          \* which of the two scripts runs
    files,           \* the two documents
    samples,         \* the two sample files
    pc,              \* where the module body stands
    text1, names1, relationships1,
    text2, names2, relationships2,
    out,             \* standard output, line by line
    raised           \* what raised the exception that ended the run, "none" if none

vars == <<script, files, samples, pc, text1, names1, relationships1,
          text2, names2, relationships2, out, raised>>

\* pdf1_sample.txt does not exist yet, pdf2_sample.txt is left from an
\* earlier run
Init ==
    /\ \E run \in Runs :
         /\ script = run[1]
         /\ files = [p \in {PDF1, PDF2} |-> IF p = PDF1 THEN run[2] ELSE run[3]]
    /\ samples = [s \in {SAMPLE1, SAMPLE2} |-> IF s = SAMPLE1 THEN NoFile ELSE File(STALE)]
    /\ pc = "first"
    /\ text1 = Unbound /\ names1 = UnboundSet /\ relationships1 = Unbound
    /\ text2 = Unbound /\ names2 = UnboundSet /\ relationships2 = Unbound
    /\ out = << >>
    /\ raised = "none"

\* with open(sample, "w", encoding="utf-8") as f: f.write(text[:5000])
WriteSample(sample, text) == [samples EXCEPT ![sample] = File(Prefix(text, SampleLen))]

\* a module body that a failed read ends as well
AfterDocument_EndOnFailure(text, opens, next) ==
    IF ~Truthy(text) \/ ~opens THEN "raised" ELSE next

\* Where the module body stands after a document: the exception of open()
\* is not caught, and open() is reached only under "if text:"
AfterDocument(text, opens, next) ==
    IF Truthy(text) /\ ~opens THEN "raised" ELSE next

\* extract_pdf_text.py, the first document.  opens: whether
\* open("pdf1_sample.txt", "w") succeeds.
AnalyzeFirst ==
    /\ script = "extract_pdf_text" /\ pc = "first"
    /\ \E r \in {AnalyzeDocument(PDF1, files[PDF1])}, opens \in BOOLEAN :
         /\ text1' = r.text
         /\ names1' = r.names
         /\ relationships1' = r.relationships
         /\ out' = out \o <<Line("=== ANALYZING FIRST PDF ===", << >>)>> \o r.printed
         /\ pc' = AfterDocument(r.text, opens, "second")
         /\ raised' = IF pc' = "raised" THEN SAMPLE1 ELSE raised
         /\ samples' = IF Truthy(r.text) /\ pc' # "raised"
                       THEN WriteSample(SAMPLE1, r.text.v) ELSE samples
    /\ UNCHANGED <<script, files, text2, names2, relationships2>>

\* extract_pdf_text.py, the second document
AnalyzeSecond ==
    /\ script = "extract_pdf_text" /\ pc = "second"
    /\ \E r \in {AnalyzeDocument(PDF2, files[PDF2])}, opens \in BOOLEAN :
         /\ text2' = r.text
         /\ names2' = r.names
         /\ relationships2' = r.relationships
         /\ out' = out \o <<Line("\n=== ANALYZING SECOND PDF ===", << >>)>> \o r.printed
         /\ pc' = AfterDocument(r.text, opens, "done")
         /\ raised' = IF pc' = "raised" THEN SAMPLE2 ELSE raised
         /\ samples' = IF Truthy(r.text) /\ pc' # "raised"
                       THEN WriteSample(SAMPLE2, r.text.v) ELSE samples
    /\ UNCHANGED <<script, files, text1, names1, relationships1>>

\* simple_pdf_analysis.py, the first document
BinaryFirst ==
    /\ script = "simple_pdf_analysis" /\ pc = "first"
    /\ \E r \in {analyze_pdf_binary(PDF1, files[PDF1])} :
         /\ text1' = r.text
         /\ names1' = r.names
         /\ out' = out \o <<Line("=== FIRST PDF ANALYSIS ===", << >>)>> \o r.printed
    /\ pc' = "second"
    /\ UNCHANGED <<script, files, samples, relationships1, text2, names2,
                   relationships2, raised>>

\* simple_pdf_analysis.py, the second document
BinarySecond ==
    /\ script = "simple_pdf_analysis" /\ pc = "second"
    /\ \E r \in {analyze_pdf_binary(PDF2, files[PDF2])} :
         /\ text2' = r.text
         /\ names2' = r.names
         /\ out' = out \o <<Line("\n=== SECOND PDF ANALYSIS ===", << >>)>> \o r.printed
    /\ pc' = "summary"
    /\ UNCHANGED <<script, files, samples, relationships2, text1, names1,
                   relationships1, raised>>

\* simple_pdf_analysis.py, the summary
Summary ==
    /\ script = "simple_pdf_analysis" /\ pc = "summary"
    /\ \E all_names \in {names1.v \cup names2.v} :
           out' = out \o <<Line("\n=== SUMMARY ===", << >>),
                           Line("Total unique names found: {len(all_names)}",
                                Cardinality(all_names)),
                           Line("All names:", << >>)>>
                      \o NameLines(sorted(all_names))
    /\ pc' = "done"
    /\ UNCHANGED <<script, files, samples, text1, names1, relationships1,
                   text2, names2, relationships2, raised>>

Next == AnalyzeFirst \/ AnalyzeSecond \/ BinaryFirst \/ BinarySecond \/ Summary

Spec == Init /\ [][Next]_vars

(***************************************************************************)
(* Properties                                                              *)
(***************************************************************************)
Structured == script = "extract_pdf_text"

Text(k) == IF k = 1 THEN text1 ELSE text2
Names(k) == IF k = 1 THEN names1 ELSE names2
Rels(k) == IF k = 1 THEN relationships1 ELSE relationships2
Sample(k) == IF k = 1 THEN SAMPLE1 ELSE SAMPLE2

\* the banner printed before document k
Banner(k) ==
    IF Structured
    THEN (IF k = 1 THEN "=== ANALYZING FIRST PDF ===" ELSE "\n=== ANALYZING SECOND PDF ===")
    ELSE (IF k = 1 THEN "=== FIRST PDF ANALYSIS ===" ELSE "\n=== SECOND PDF ANALYSIS ===")

Banners ==
    { "=== ANALYZING FIRST PDF ===", "\n=== ANALYZING SECOND PDF ===",
      "=== FIRST PDF ANALYSIS ===", "\n=== SECOND PDF ANALYSIS ===", "\n=== SUMMARY ===" }

\* the lines of standard output that belong to document k
ReportOf(k) ==
    { i \in 1..Len(out) :
        \E h \in 1..(i - 1) : /\ out[h].fmt = Banner(k)
                              /\ \A j \in (h + 1)..i : out[j].fmt \notin Banners }

\* document k's block of the script has started
Attempted(k) == \E i \in 1..Len(out) : out[i].fmt = Banner(k)

\* document k's block of the script has run to its end
Completed(k) ==
    IF k = 1 THEN pc \in {"second", "summary", "done"} \/ (pc = "raised" /\ raised = SAMPLE2)
    ELSE pc \in {"summary", "done"}

\* the names printed on the lines S, in the order printed
PrintedAt(idx) == [j \in 1..Len(idx) |-> out[idx[j]].arg]
NamesOn(S) ==
    PrintedAt(SelectSeq([i \in 1..Len(out) |-> i],
                        LAMBDA i : i \in S /\ out[i].fmt = "  - {name}"))

\* the names document k's report prints
PrintedNames(k) == NamesOn(ReportOf(k))

SectionLines == {"Names found:", "\nRelationships found:"}
SectionsPrinted(k) == \A h \in SectionLines : \E i \in ReportOf(k) : out[i].fmt = h

Has(list, item) == \E i \in 1..Len(list) : list[i] = item

\* word stands in text at position p
PhraseAt(word, text, p) ==
    /\ p + Len(word) - 1 <= Len(text)
    /\ SubSeq(text, p, p + Len(word) - 1) = word

\* The strings of [A-Z][a-z]{k,}(?:\s+[A-Z][a-z]{k,})*, character by
\* character: capitals open the words, at least k small letters follow
\* each, whitespace stands only between words
Capitalized(n, k) ==
    /\ Len(n) > k
    /\ n[1] \in Upper
    /\ \A i \in 1..Len(n) :
         /\ n[i] \in Upper \cup Lower \cup Space
         /\ n[i] \in Upper => /\ i = 1 \/ n[i - 1] \in Space
                              /\ \A j \in 1..k : i + j <= Len(n) /\ n[i + j] \in Lower
         /\ n[i] \in Lower => i > 1 /\ n[i - 1] \notin Space
         /\ n[i] \in Space => i < Len(n) /\ n[i + 1] \notin Lower

------------------------------------------------------------------------------
\* C1: in both scripts every string of a returned name set is made of
\* capitalized words joined by whitespace (at least one small letter after
\* each capital in extract_pdf_text.py, at least two in
\* simple_pdf_analysis.py), is not in that script's stoplist and has at
\* least 3 characters.
C1_NamesWellFormed ==
    \A k \in {1, 2} : \A n \in Names(k).v :
        /\ Capitalized(n, IF Structured THEN 1 ELSE 2)
        /\ n \notin (IF Structured THEN common_words ELSE binary_common_words)
        /\ Len(n) >= 3

\* a two-letter candidate was dropped and another name was kept
C1_Witness ==
    /\ Structured
    /\ Names(1).type = "set"
    /\ Contains(<<"A", "l">>, text1.v)
    /\ <<"A", "l">> \notin names1.v
    /\ <<"Z", "e", "d">> \in names1.v

------------------------------------------------------------------------------
JaneAndJohn == PyTuple(<<<<"J", "a", "n", "e", " ", "S", "m", "i", "t", "h">>, <<"J", "o", "h", "n", " ", "D", "o", "e">>>>)

\* two letters and then whitespace end right before position p
WordAndSpaceBefore(text, p) ==
    \E q \in 2..(p - 2) : /\ text[q - 1] \in Letter /\ text[q] \in Letter
                          /\ \A j \in (q + 1)..(p - 1) : text[j] \in Space

\* whitespace and then two letters start at position e
SpaceAndWordAfter(text, e) ==
    \E q \in (e + 1)..(Len(text) - 1) : /\ text[q] \in Letter /\ text[q + 1] \in Letter
                                         /\ \A j \in e..(q - 1) : text[j] \in Space

\* no letter touches the n characters at p, and no word is separated from
\* them by whitespace only
Delimited(text, p, n) ==
    /\ p = 1 \/ (text[p - 1] \notin Letter /\ ~WordAndSpaceBefore(text, p))
    /\ p + n > Len(text) \/ (text[p + n] \notin Letter /\ ~SpaceAndWordAfter(text, p + n))

\* C2, as stated: whatever precedes or follows the phrase "Jane Smith works
\* with John Doe" in a text, the relationship list holds the tuple
\* ("Jane Smith", "John Doe").
C2_AnyContext ==
    \A k \in {1, 2} :
        (Rels(k).type = "list" /\ Contains(PHRASE, Text(k).v))
            => Has(Rels(k).v, JaneAndJohn)

\* C2, amended: the relationship list holds ("Jane Smith", "John Doe")
\* when the phrase stands in the text with no letter right before or right
\* after it, no word of two or more letters followed by whitespace right
\* before it, and no whitespace followed by two or more letters right after
\* it.
C2_DelimitedPhrase ==
    \A k \in {1, 2} : \A p \in 1..Len(Text(k).v) :
        (/\ Rels(k).type = "list"
         /\ PhraseAt(PHRASE, Text(k).v, p)
         /\ Delimited(Text(k).v, p, Len(PHRASE)))
            => Has(Rels(k).v, JaneAndJohn)

\* the phrase delimited inside a longer text
C2_Witness ==
    /\ Rels(1).type = "list"
    /\ \E p \in 2..Len(text1.v) :
         /\ PhraseAt(PHRASE, text1.v, p)
         /\ Delimited(text1.v, p, Len(PHRASE))
    /\ Has(relationships1.v, JaneAndJohn)

------------------------------------------------------------------------------
\* the capture groups of a pattern, in order
Groups(pattern) == SelectSeq(pattern.rs, LAMBDA item : item.t = "grp")

\* the groups that hold the name sub-pattern
NameGroups(pattern) == { g \in 1..NGroups(pattern) : Groups(pattern)[g].r.t = "cat" }

GroupValue(match, g) == IF match.type = "str" THEN match.v ELSE match.v[g]

\* what the name sub-pattern captured in the matches of a pattern
NameSpans(pattern, text) ==
    { GroupValue(m, g) : m \in Range(findall(pattern, text, TRUE)), g \in NameGroups(pattern) }

\* C3, as stated: every span the name sub-pattern captures into a
\* relationship tuple is made of capitalized words, and a text without
\* capital letters yields no relationship tuple.
C3_EntitiesCapitalized ==
    \A k \in {1, 2} :
        Rels(k).type = "list" =>
            /\ \A i \in 1..Len(relationship_patterns) :
                 \A s \in NameSpans(relationship_patterns[i], Text(k).v) : Capitalized(s, 1)
            /\ \A i \in 1..Len(redacted_patterns) :
                 \A s \in NameSpans(redacted_patterns[i], Text(k).v) : Capitalized(s, 1)
            /\ (\A i \in 1..Len(Text(k).v) : Text(k).v[i] \notin Upper) => Rels(k).v = << >>

------------------------------------------------------------------------------
RedactedBrother == PyTuple(<<REDACTED, <<"b", "r", "o", "t", "h", "e", "r">>>>)

\* every match of a redacted pattern with one capture group is in the list
\* as ('REDACTED', captured value), and the list holds tuples only
SingleGroupNormalized(k) ==
    /\ \A j \in 1..Len(Rels(k).v) : Rels(k).v[j].type = "tuple"
    /\ \A i \in 1..Len(redacted_patterns) :
         NGroups(redacted_patterns[i]) = 1 =>
             \A m \in Range(findall(redacted_patterns[i], Text(k).v, TRUE)) :
                 Has(Rels(k).v, PyTuple(<<REDACTED, m.v>>))

\* C4, as stated: every match of a redacted pattern with a single capture
\* group is appended as ('REDACTED', captured value), and every text that
\* contains "REDACTED is my brother" yields ("REDACTED", "brother").
C4_AnyBrother ==
    \A k \in {1, 2} :
        Rels(k).type = "list" =>
            /\ SingleGroupNormalized(k)
            /\ Contains(BROTHER, Text(k).v) => Has(Rels(k).v, RedactedBrother)

\* C4, amended: every match of a redacted pattern with a single capture
\* group is appended as ('REDACTED', captured value), and a text where
\* "REDACTED is my brother" stands with no letter right before it, no word
\* of two or more letters followed by whitespace right before it, and no
\* letter right after it yields ("REDACTED", "brother").
C4_Normalized ==
    \A k \in {1, 2} :
        Rels(k).type = "list" =>
            /\ SingleGroupNormalized(k)
            /\ \A p \in 1..Len(Text(k).v) :
                 (/\ PhraseAt(BROTHER, Text(k).v, p)
                  /\ p = 1 \/ (Text(k).v[p - 1] \notin Letter
                                 /\ ~WordAndSpaceBefore(Text(k).v, p))
                  /\ p + Len(BROTHER) > Len(Text(k).v)
                       \/ Text(k).v[p + Len(BROTHER)] \notin Letter)
                     => Has(Rels(k).v, RedactedBrother)

\* a token written in small letters was matched and the tuple starts with
\* the capital literal
C4_Witness ==
    /\ Rels(1).type = "list"
    /\ Contains(<<"r", "e", "d", "a", "c", "t", "e", "d", " ", "w", "a", "s", " ", "h", "e", "r", " ", "b", "o", "s", "s">>, text1.v)
    /\ ~Contains(REDACTED, text1.v)
    /\ Has(relationships1.v, PyTuple(<<REDACTED, <<"b", "o", "s", "s">>>>))

------------------------------------------------------------------------------
\* reading the document raises: no file, a file the reader rejects, a page
\* whose extraction raises
Fails(doc) ==
    \/ ~doc.exists
    \/ ~doc.loads
    \/ Structured /\ \E i \in 1..Len(doc.pages) : ~doc.pages[i].ok

NoSectionFrom(o, from) == \A i \in (from + 1)..Len(o) : o[i].fmt \notin SectionLines

ReadFailureHandled ==
    /\ (pc = "first" /\ Fails(files[PDF1])) =>
          /\ text1' = None
          /\ pc' = "second" /\ raised' = "none"
          /\ samples' = samples
          /\ IF Structured
             THEN names1' = UnboundSet /\ relationships1' = Unbound
                    /\ NoSectionFrom(out', Len(out))
             ELSE names1' = PySet({})
    /\ (pc = "second" /\ Fails(files[PDF2])) =>
          /\ text2' = None
          /\ pc' = (IF Structured THEN "done" ELSE "summary") /\ raised' = raised
          /\ samples' = samples
          /\ IF Structured
             THEN names2' = UnboundSet /\ relationships2' = Unbound
                    /\ NoSectionFrom(out', Len(out))
             ELSE names2' = PySet({})

\* C5: when reading a document fails (no file, a corrupt file, a page that
\* raises, also after earlier pages were read) the acquisition gives None
\* in extract_pdf_text.py and (None, empty set) in simple_pdf_analysis.py,
\* the script goes on to its next step without an exception, and in
\* extract_pdf_text.py neither section is printed nor the sample file
\* written for that document.
C5_ReadFailure == [][ReadFailureHandled]_vars

\* the second page raised after the first was read
C5_Witness ==
    /\ Structured /\ pc = "second"
    /\ Len(files[PDF1].pages) = 2
    /\ files[PDF1].pages[1].ok /\ ~files[PDF1].pages[2].ok
    /\ text1 = None
    /\ out[Len(out)] = ErrorLine(PDF1)

------------------------------------------------------------------------------
\* C6, as stated: in extract_pdf_text.py, once a document whose
\* acquisition returned a text of any length, 0 included, has been
\* processed, its sample file exists and holds the first
\* min(5000, len(text)) characters of the text.
C6_SampleWritten ==
    \A k \in {1, 2} :
        (Structured /\ Completed(k) /\ Text(k).type = "str")
            => samples[Sample(k)] = File(Prefix(Text(k).v, SampleLen))

------------------------------------------------------------------------------
\* the matches of the patterns from the i-th on, one pattern after the other
RECURSIVE GeneralFrom(_, _)
GeneralFrom(i, text) ==
    IF i > Len(relationship_patterns) THEN << >>
    ELSE findall(relationship_patterns[i], text, TRUE) \o GeneralFrom(i + 1, text)

\* a match of a redacted pattern as the list holds it
Paired(n, ms) == [j \in 1..Len(ms) |-> IF n = 1 THEN PyTuple(<<REDACTED, ms[j].v>>) ELSE ms[j]]

RECURSIVE RedactedFrom(_, _)
RedactedFrom(i, text) ==
    IF i > Len(redacted_patterns) THEN << >>
    ELSE Paired(NGroups(redacted_patterns[i]), findall(redacted_patterns[i], text, TRUE))
           \o RedactedFrom(i + 1, text)

\* the list a call returns for a text
Returned(was, now, text) ==
    now # was => now.v = GeneralFrom(1, text.v) \o RedactedFrom(1, text.v)

\* C7: the relationship list a call of extract_names_and_relationships
\* returns is the matches of the five general patterns in list order
\* followed by the matches of the five redacted patterns in list order,
\* each pattern's matches in text order, every match kept: a pair matched
\* several times stands in the list once per match.
C7_Concatenation ==
    [][/\ Returned(relationships1, relationships1', text1')
       /\ Returned(relationships2, relationships2', text2')]_vars

\* the same pair matched by a general and by a redacted pattern stands
\* twice in the list
C7_Witness ==
    /\ Rels(1).type = "list"
    /\ \E i, j \in 1..Len(relationships1.v) :
         i < j /\ relationships1.v[i] = RedactedBrother /\ relationships1.v[j] = RedactedBrother

------------------------------------------------------------------------------
Ascending(l) == \A i \in 1..(Len(l) - 1) : LexLess(l[i], l[i + 1])

\* printed holds every name of the set once, in ascending order
AllAscending(printed, names) ==
    /\ Ascending(printed)
    /\ Range(printed) = names
    /\ Len(printed) = Cardinality(names)

\* printed holds the first names of the set in ascending order, at most
\* limit of them (all of them with limit = 0)
FirstAscending(printed, names, limit) ==
    /\ Ascending(printed)
    /\ Range(printed) \subseteq names
    /\ Len(printed) = (IF limit = 0 \/ Cardinality(names) < limit
                       THEN Cardinality(names) ELSE limit)
    /\ \A n \in names \ Range(printed) : \A i \in 1..Len(printed) : LexLess(printed[i], n)

\* C8, as stated: in both scripts the names report of a document prints
\* every string of the document's name set exactly once, in ascending
\* order, whatever the size of the set.
C8_AllNamesPrinted ==
    \A k \in {1, 2} :
        Names(k).type = "set" => AllAscending(PrintedNames(k), Names(k).v)

\* C8, amended: the names report of a document prints names of the
\* document's name set in ascending order, each once: all of them in
\* extract_pdf_text.py, the first 20 of the ascending order (all of them
\* when the set has at most 20) in simple_pdf_analysis.py.
C8_SortedReport ==
    \A k \in {1, 2} :
        Names(k).type = "set"
            => FirstAscending(PrintedNames(k), Names(k).v,
                              IF Structured THEN 0 ELSE ShowFirst)

\* a name set of more than 20 names has been reported
C8_Witness ==
    /\ ~Structured /\ pc = "done"
    /\ Cardinality(names1.v) > ShowFirst
    /\ Len(PrintedNames(1)) = ShowFirst

------------------------------------------------------------------------------
\* the second document was acquired and its report printed
SecondReported == Attempted(2) /\ text2.type # "unbound"

\* C9, as stated: in every run of either script the second document's
\* acquisition is attempted and its report produced, whatever happened to
\* the first document.
C9_SecondAlwaysProcessed == pc \in {"done", "raised"} => SecondReported

\* C9, amended: a failure while reading a document never keeps the other
\* document from being processed, and simple_pdf_analysis.py always
\* processes both; a run ends without the second document only in
\* extract_pdf_text.py, when the first document's text was read and
\* writing its sample file raised.
C9_OnlySampleWriteEnds ==
    (pc \in {"done", "raised"} /\ ~SecondReported)
        => /\ Structured
           /\ raised = SAMPLE1
           /\ Truthy(text1)
           /\ samples[SAMPLE1] = NoFile

\* the first document could not be read and the second was reported
C9_Witness ==
    /\ Structured /\ pc = "done"
    /\ Fails(files[PDF1]) /\ text1 = None
    /\ SecondReported /\ names2.v # {}

------------------------------------------------------------------------------
\* C10, as stated: in extract_pdf_text.py the two sections of a document
\* are skipped only when acquisition returned None; whenever it returned a
\* text, a zero-length text included, both section headers are printed.
C10_SectionsUnlessNone ==
    \A k \in {1, 2} :
        (Structured /\ Attempted(k)) => (SectionsPrinted(k) <=> Text(k) # None)

=============================================================================
